---------------------------- MODULE Spec2Model ----------------------------
(***************************************************************************)
(* A model of the directory-scoped tree cache (updateCache and             *)
(* getCachedCollection) and of the credential broker (getToken,            *)
(* getInstallationToken, getUserToken) of the cms repository.              *)
(*                                                                         *)
(* Paths are sequences of segments: "a/x.md" is <<"a", "x.md">>, the empty *)
(* string (the repository root as getCachedCollection receives it) is      *)
(* <<>>, and "." (what path.dirname returns for a path without a slash)    *)
(* is <<".">>.                                                             *)
(***************************************************************************)
EXTENDS Integers, Sequences, FiniteSets, TLC

VARIABLES
    store,      \* cachedEntriesTable: the set of CachedEntry rows
    remote,     \* the remote trees: namespace -> file -> blob version (0: absent)
    clock,      \* Date.now() of the tree cache; one tick per call and per commit
    pending,    \* namespace -> the change set committed remotely and not yet reconciled
    truth,      \* namespace -> directory -> its remote listing at the last successful fetch or reconciliation touching it
    faithful,   \* every updateCache call so far was given the change set the remote had committed
    last        \* what the last tree cache call did

cacheVars == <<store, remote, clock, pending, truth, faithful, last>>

VARIABLES
    tokens,         \* githubInstallationTokenTable
    nextId,         \* the serial id the next inserted token row gets
    nowMs,          \* Date.now() of the credential broker, in milliseconds
    minted,         \* the installation access tokens the remote has created so far
    subscriptions,  \* subscriptionTable (read only)
    collaborators,  \* collaboratorTable (read only)
    userTokens,     \* githubUserTokenTable (read only)
    tlast           \* what the credential broker call just made did

tokenVars ==
    <<tokens, nextId, nowMs, minted, subscriptions, collaborators, userTokens, tlast>>

VARIABLES
    calls,          \* caller -> its getInstallationToken call in flight
    written         \* the rows' contents the callers in flight have written so far

raceVars == <<calls, written>>

VARIABLES
    listings        \* caller -> its getCachedCollection call in flight

listVars == <<listings>>

VARIABLES
    memo,           \* the results React's cache holds for the request in progress
    requestUser,    \* the user of the request in progress, as getAuth() returns it
    served,         \* the broker calls made in the request in progress
    computed,       \* call key -> the times the request in progress ran the function body
    work            \* (owner, repo) -> the installation lookups, mints and writes of the request

requestVars == <<memo, requestUser, served, computed, work>>

vars == <<cacheVars, tokenVars, raceVars, listVars, requestVars>>

\* What the steps of one component leave alone
notCacheVars == <<tokenVars, raceVars, listVars, requestVars>>

notTokenVars == <<cacheVars, raceVars, listVars, requestVars>>

notRaceVars == <<cacheVars, listVars, requestVars>>

notListVars == <<remote, pending, truth, faithful, last, tokenVars, raceVars, requestVars>>

notRequestVars == <<cacheVars, raceVars, listVars>>

-----------------------------------------------------------------------------
(* Bounds of the model *)

\* A behaviour of the tree cache holds at most this many calls and commits.
MaxClock == 3

\* A change set names at most this many paths.
MaxChange == 2

\* The remote creates at most this many installation access tokens.
MaxMints == 2

\* The credential broker's clock stops here.
MaxNowMs == 2000

-----------------------------------------------------------------------------
(* Paths *)

Root == <<>>

Dot == <<".">>

\* The files the remote trees may hold.
Files == { <<"r.md">>, <<"a", "x.md">>, <<"a", "y.md">> }

\* The directories a caller may ask getCachedCollection for: the root as ""
\* and "a".
Dirs == { Root, <<"a">> }

\* A fixed order of Files, in which a set of paths is laid out as an array.
FileOrder == << <<"r.md">>, <<"a", "x.md">>, <<"a", "y.md">> >>

Namespaces == { <<"o", "r", "main">>, <<"o", "r", "dev">> }

\* The namespaces whose remote tree changes in the model.
CommitNamespaces == { <<"o", "r", "main">> }

\* path.dirname on a normalised relative path: "." when there is no slash.
Dirname(p) == IF Len(p) <= 1 THEN Dot ELSE SubSeq(p, 1, Len(p) - 1)

\* path.basename
Basename(p) == IF Len(p) = 0 THEN "" ELSE p[Len(p)]

\* The directory that holds p in the remote tree.
TrueParent(p) == SubSeq(p, 1, Len(p) - 1)

IsPrefix(d, p) == Len(d) < Len(p) /\ SubSeq(p, 1, Len(d)) = d


-----------------------------------------------------------------------------
(* The remote tree (the GraphQL API the two functions query) *)

NullVal == [kind |-> "null", v |-> 0]

\* Blob.text and Blob.oid of the blob version v
Text(v) == [kind |-> "text", v |-> v]

Oid(v) == [kind |-> "oid", v |-> v]

\* The expression `${branch}:${path}` of a query
Expression(branch, p) == [branch |-> branch, path |-> p]

\* The children of directory d in a tree: the files in d and the first
\* segment below d of every deeper file.
ChildPaths(tree, d) ==
    { SubSeq(f, 1, Len(d) + 1) : f \in { g \in Files : tree[g] > 0 /\ IsPrefix(d, g) } }

\* object(expression) { ... on Tree { entries { name path type object { ... on Blob { text oid } } } } }
\* An expression that names no tree has no entries.
TreeEntries(tree, d) ==
    { [ name |-> c[Len(c)],
        path |-> c,
        type |-> IF c \in Files /\ tree[c] > 0 THEN "blob" ELSE "tree",
        text |-> IF c \in Files /\ tree[c] > 0 THEN Text(tree[c]) ELSE NullVal,
        oid  |-> IF c \in Files /\ tree[c] > 0 THEN Oid(tree[c]) ELSE NullVal ]
      : c \in ChildPaths(tree, d) }

\* object(expression) { ... on Blob { text oid } }: null when the expression
\* names nothing.
BlobObject(tree, p) ==
    IF p \in Files /\ tree[p] > 0
    THEN [found |-> TRUE, text |-> Text(tree[p]), oid |-> Oid(tree[p])]
    ELSE [found |-> FALSE, text |-> NullVal, oid |-> NullVal]

-----------------------------------------------------------------------------
(* The store (cachedEntriesTable) *)

InNamespace(r, ns) == r.owner = ns[1] /\ r.repo = ns[2] /\ r.branch = ns[3]

\* The (owner, repo, branch, path) primary key refuses a second row.
KeyConflict(st, row) ==
    \E r \in st : /\ r.owner = row.owner /\ r.repo = row.repo
                  /\ r.branch = row.branch /\ r.path = row.path

Statement(kind, paths) == [kind |-> kind, paths |-> paths]

\* Laid out in FileOrder, the paths of S as an array.
AsArray(S) == SelectSeq(FileOrder, LAMBDA f : f \in S)

Range(s) == { s[i] : i \in 1..Len(s) }


-----------------------------------------------------------------------------
(* updateCache *)

\* What a call did: the store it left, the remote queries it issued (each the
\* array of its expressions), the store statements it issued, the error it
\* threw ("none": it returned) and the rows it returned.
Outcome(st, queries, stmts, err, result) ==
    [store |-> st, queries |-> queries, stmts |-> stmts, err |-> err, result |-> result]

\* new Set of the three lists' path.dirname
ParentPaths(removedFiles, modifiedFiles, addedFiles) ==
    { Dirname(p) : p \in Range(removedFiles) \cup Range(modifiedFiles) \cup Range(addedFiles) }

\* The parent paths that have at least one row in the namespace.
\* A lookup of the cached parents that leaves out the namespace condition.
CachedParentPathsAnyNamespace(st, ns, parentPaths) ==
    { r.parentPath : r \in { e \in st : e.parentPath \in parentPaths } }

CachedParentPaths(st, ns, parentPaths) ==
    { r.parentPath : r \in { e \in st : InNamespace(e, ns) /\ e.parentPath \in parentPaths } }

FilesToRemove(removedFiles, cached) ==
    SelectSeq(removedFiles, LAMBDA p : Dirname(p) \in cached)

FilesToFetch(modifiedFiles, addedFiles, cached) ==
    SelectSeq(modifiedFiles, LAMBDA p : Dirname(p) \in cached)
        \o SelectSeq(addedFiles, LAMBDA p : Dirname(p) \in cached)

\* A delete that leaves out the namespace condition.
DeleteRowsAnyNamespace(st, ns, paths) ==
    { r \in st : r.path \notin paths }

\* db.delete ... inArray(path, filesToRemove paths), within the namespace
DeleteRows(st, ns, paths) ==
    { r \in st : ~(InNamespace(r, ns) /\ r.path \in paths) }

\* An update that replaces content and sha and leaves lastUpdated as it was.
UpdateRowKeepingTime(st, ns, p, content, sha, now) ==
    { IF InNamespace(r, ns) /\ r.path = p
      THEN [r EXCEPT !.content = content, !.sha = sha]
      ELSE r : r \in st }

\* db.update ... set content, sha, lastUpdated where path = update.path
UpdateRow(st, ns, p, content, sha, now) ==
    { IF InNamespace(r, ns) /\ r.path = p
      THEN [r EXCEPT !.content = content, !.sha = sha, !.lastUpdated = now]
      ELSE r : r \in st }

\* The row updateCache inserts for an added file.
AddedRow(ns, p, content, sha, now) ==
    [ owner |-> ns[1], repo |-> ns[2], branch |-> ns[3],
      path |-> p, parentPath |-> Dirname(p), name |-> Basename(p),
      type |-> "blob", content |-> content, sha |-> sha, lastUpdated |-> now ]

\* The loop over updates, from the i-th on: an update for a path of
\* modifiedFiles, an insert otherwise; a refused insert throws and ends it.
RECURSIVE ApplyUpdates(_, _, _, _, _, _, _, _)
ApplyUpdates(st, tree, ns, filesToFetch, modifiedFiles, now, i, stmts) ==
    IF i > Len(filesToFetch) THEN [store |-> st, stmts |-> stmts, err |-> "none"]
    ELSE LET p == filesToFetch[i]
             fileData == BlobObject(tree, p)
         IN  IF p \in Range(modifiedFiles)
             THEN ApplyUpdates(UpdateRow(st, ns, p, fileData.text, fileData.oid, now),
                               tree, ns, filesToFetch, modifiedFiles, now, i + 1,
                               Append(stmts, Statement("update", {p})))
             ELSE LET row == AddedRow(ns, p, fileData.text, fileData.oid, now)
                  IN  IF KeyConflict(st, row)
                      THEN [store |-> st,
                            stmts |-> Append(stmts, Statement("insert", {p})),
                            err |-> "StoreError"]
                      ELSE ApplyUpdates(st \cup {row}, tree, ns, filesToFetch,
                                        modifiedFiles, now, i + 1,
                                        Append(stmts, Statement("insert", {p})))

\* updateCache(owner, repo, branch, removedFiles, modifiedFiles, addedFiles, token)
\* on store st and remote tree `tree` at time now; reply is what the remote
\* answers if it is queried: "ok" or "fail".
UpdateCache(st, tree, ns, removedFiles, modifiedFiles, addedFiles, reply, now) ==
    LET parentPaths == ParentPaths(removedFiles, modifiedFiles, addedFiles)
        cached == CachedParentPaths(st, ns, parentPaths)
        filesToRemove == FilesToRemove(removedFiles, cached)
        filesToFetch == FilesToFetch(modifiedFiles, addedFiles, cached)
        st1 == IF Len(filesToRemove) > 0
               THEN DeleteRows(st, ns, Range(filesToRemove)) ELSE st
        stmts1 == IF Len(filesToRemove) > 0
                  THEN << Statement("delete", Range(filesToRemove)) >> ELSE << >>
        query == [i \in 1..Len(filesToFetch) |-> Expression(ns[3], filesToFetch[i])]
    IN  IF Len(filesToFetch) = 0 THEN Outcome(st1, << >>, stmts1, "none", {})
        ELSE IF reply = "fail"
             THEN Outcome(st1, << query >>, stmts1, "RemoteQueryFailed", {})
        ELSE IF \E i \in 1..Len(filesToFetch) : ~BlobObject(tree, filesToFetch[i]).found
             THEN Outcome(st1, << query >>, stmts1, "TypeError", {})
        ELSE LET done == ApplyUpdates(st1, tree, ns, filesToFetch, modifiedFiles,
                                      now, 1, stmts1)
             IN  Outcome(done.store, << query >>, done.stmts, done.err, {})

-----------------------------------------------------------------------------
(* getCachedCollection *)

\* The rows of the namespace with parentPath = d
\* A cache lookup that matches the directory's own path, not parentPath.
CachedChildrenByPath(st, ns, d) == { r \in st : InNamespace(r, ns) /\ r.path = d }

CachedChildren(st, ns, d) == { r \in st : InNamespace(r, ns) /\ r.parentPath = d }

\* The row getCachedCollection inserts for an entry of the remote listing.
ListedRow(ns, d, entry, now) ==
    [ owner |-> ns[1], repo |-> ns[2], branch |-> ns[3],
      path |-> entry.path, parentPath |-> d, name |-> entry.name,
      type |-> entry.type,
      content |-> IF entry.type = "blob" THEN entry.text ELSE NullVal,
      sha |-> IF entry.type = "blob" THEN entry.oid ELSE NullVal,
      lastUpdated |-> now ]

\* A getCachedCollection that records an empty directory as fetched, with a
\* row that stands for the directory itself.
GetCachedCollectionMarkingEmpty(st, tree, ns, d, reply, now) ==
    LET entries == CachedChildren(st, ns, d)
        query == << Expression(ns[3], d) >>
        githubEntries == TreeEntries(tree, d)
        rows == { ListedRow(ns, d, e, now) : e \in githubEntries }
        paths == { e.path : e \in githubEntries }
        marker == ListedRow(ns, d, [name |-> ".", path |-> d \o Dot, type |-> "tree",
                                    text |-> NullVal, oid |-> NullVal], now)
    IN  IF entries # {} THEN Outcome(st, << >>, << >>, "none", entries)
        ELSE IF reply = "fail"
             THEN Outcome(st, << query >>, << >>, "RemoteQueryFailed", {})
        ELSE IF githubEntries = {}
             THEN Outcome(st \cup {marker}, << query >>,
                          << Statement("insert", {marker.path}) >>, "none", {})
        ELSE IF \E row \in rows : KeyConflict(st, row)
             THEN Outcome(st, << query >>, << Statement("insert", paths) >>, "StoreError", {})
        ELSE Outcome(st \cup rows, << query >>, << Statement("insert", paths) >>, "none", rows)

\* getCachedCollection(owner, repo, branch, path, token)
GetCachedCollection(st, tree, ns, d, reply, now) ==
    LET entries == CachedChildren(st, ns, d)
        query == << Expression(ns[3], d) >>
        githubEntries == TreeEntries(tree, d)
        rows == { ListedRow(ns, d, e, now) : e \in githubEntries }
        paths == { e.path : e \in githubEntries }
    IN  IF entries # {} THEN Outcome(st, << >>, << >>, "none", entries)
        ELSE IF reply = "fail"
             THEN Outcome(st, << query >>, << >>, "RemoteQueryFailed", {})
        ELSE IF githubEntries = {}
             THEN Outcome(st, << query >>, << >>, "none", {})
        ELSE IF \E row \in rows : KeyConflict(st, row)
             THEN Outcome(st, << query >>, << Statement("insert", paths) >>, "StoreError", {})
        ELSE Outcome(st \cup rows, << query >>, << Statement("insert", paths) >>, "none", rows)


-----------------------------------------------------------------------------
(* The tree cache as a state machine *)

ChangeSet(rem, mod, add) ==
    [removed |-> AsArray(rem), modified |-> AsArray(mod), added |-> AsArray(add)]

NoChange == ChangeSet({}, {}, {})

\* The change sets a caller may hand to updateCache: three disjoint lists.
ChangeSets ==
    { ChangeSet(rem, mod, add) : <<rem, mod, add>> \in
        { t \in (SUBSET Files) \X (SUBSET Files) \X (SUBSET Files) :
            /\ Cardinality(t[1]) + Cardinality(t[2]) + Cardinality(t[3]) <= MaxChange
            /\ Cardinality(t[1] \cup t[2] \cup t[3])
                 = Cardinality(t[1]) + Cardinality(t[2]) + Cardinality(t[3]) } }

PathsOf(cs) == Range(cs.removed) \cup Range(cs.modified) \cup Range(cs.added)

\* cs is the difference between tree and a tree that a commit can make of it.
Committable(tree, cs) ==
    /\ cs # NoChange
    /\ \A p \in Range(cs.removed) : tree[p] > 0
    /\ \A p \in Range(cs.modified) : tree[p] > 0
    /\ \A p \in Range(cs.added) : tree[p] = 0

Committed(tree, cs) ==
    [f \in Files |->
        IF f \in Range(cs.removed) THEN 0
        ELSE IF f \in Range(cs.modified) THEN tree[f] + 1
        ELSE IF f \in Range(cs.added) THEN 1
        ELSE tree[f]]

\* A row as an entry of a remote listing
EntryOf(r) ==
    [name |-> r.name, path |-> r.path, type |-> r.type, text |-> r.content, oid |-> r.sha]

\* The paths of S whose directory in the tree has a row in the namespace.
InCachedDirectory(st, ns, S) ==
    { p \in S : \E r \in st : InNamespace(r, ns) /\ r.parentPath = TrueParent(p) }

\* The record of a call: the operation, its namespace and directory, the
\* number of paths in its change set, those of its removed and of its
\* modified and added paths that lie in a cached directory, the store it
\* found, and what it did.
Call(op, ns, d, cs, out) ==
    [ op |-> op, ns |-> ns, dir |-> d,
      size |-> Len(cs.removed) + Len(cs.modified) + Len(cs.added),
      removedCached |-> InCachedDirectory(store, ns, Range(cs.removed)),
      fetchCached |-> InCachedDirectory(store, ns, Range(cs.modified) \cup Range(cs.added)),
      before |-> store,
      queries |-> out.queries, stmts |-> out.stmts, err |-> out.err,
      result |-> out.result ]

\* The trees the branches start with: main holds every file, dev lacks a/y.md.
InitTree(ns) ==
    [f \in Files |-> IF ns[3] = "dev" /\ f = <<"a", "y.md">> THEN 0 ELSE 1]

CacheInit ==
    /\ store = {}
    /\ remote = [ns \in Namespaces |-> InitTree(ns)]
    /\ clock = 0
    /\ pending = [ns \in Namespaces |-> NoChange]
    /\ truth = [ns \in Namespaces |-> [d \in Dirs |-> {}]]
    /\ faithful = TRUE
    /\ last = Call("none", <<"o", "r", "main">>, Root, NoChange, Outcome({}, << >>, << >>, "none", {}))

\* A push to the branch: the remote tree changes and the change set awaits
\* its report to updateCache.
Commit(ns, cs) ==
    /\ clock < MaxClock
    /\ pending[ns] = NoChange
    /\ Committable(remote[ns], cs)
    /\ remote' = [remote EXCEPT ![ns] = Committed(remote[ns], cs)]
    /\ pending' = [pending EXCEPT ![ns] = cs]
    /\ clock' = clock + 1
    /\ UNCHANGED <<store, truth, faithful, last>>

\* What updateCache and getCachedCollection do when called now.
Reconciled(ns, cs, reply) ==
    UpdateCache(store, remote[ns], ns, cs.removed, cs.modified, cs.added, reply, clock + 1)

Populated(ns, d, reply) ==
    GetCachedCollection(store, remote[ns], ns, d, reply, clock + 1)

\* A call of getCachedCollection(owner, repo, branch, d, token)
Populate(ns, d, reply) ==
    /\ clock < MaxClock
    /\ LET out == Populated(ns, d, reply)
       IN  /\ store' = out.store
           /\ last' = Call("getCachedCollection", ns, d, NoChange, out)
           /\ truth' = IF out.err = "none" /\ Len(out.queries) > 0
                       THEN [truth EXCEPT ![ns][d] = TreeEntries(remote[ns], d)]
                       ELSE truth
    /\ clock' = clock + 1
    /\ UNCHANGED <<remote, pending, faithful>>

\* A call of updateCache(owner, repo, branch, removed, modified, added, token).
\* Given the pending change set and returning, it is the report of that commit.
Reconcile(ns, cs, reply) ==
    /\ clock < MaxClock
    /\ LET out == Reconciled(ns, cs, reply)
           reported == cs = pending[ns] /\ out.err = "none"
       IN  /\ store' = out.store
           /\ last' = Call("updateCache", ns, Root, cs, out)
           /\ faithful' = (faithful /\ cs = pending[ns])
           /\ pending' = IF reported THEN [pending EXCEPT ![ns] = NoChange] ELSE pending
           /\ truth' = IF reported
                       THEN [truth EXCEPT ![ns] =
                               [d \in Dirs |->
                                   IF d \in { TrueParent(p) : p \in PathsOf(cs) }
                                   THEN TreeEntries(remote[ns], d) ELSE truth[ns][d]]]
                       ELSE truth
    /\ clock' = clock + 1
    /\ UNCHANGED remote

CacheNext ==
    \/ (\E ns \in CommitNamespaces, cs \in ChangeSets : Commit(ns, cs)) /\ UNCHANGED notCacheVars
    \/ /\ \E ns \in Namespaces, d \in Dirs, reply \in {"ok", "fail"} : Populate(ns, d, reply)
       /\ UNCHANGED notCacheVars
    \/ /\ \E ns \in Namespaces, cs \in ChangeSets, reply \in {"ok", "fail"} :
            Reconcile(ns, cs, reply)
       /\ UNCHANGED notCacheVars



-----------------------------------------------------------------------------
(* Properties of the tree cache *)

\* The rows the store holds for directory d of a namespace, as the claims
\* speak of them.
RowsUnder(st, ns, d) ==
    { r \in st : r.owner = ns[1] /\ r.repo = ns[2] /\ r.branch = ns[3] /\ r.parentPath = d }

RowsAt(st, ns, paths) ==
    { r \in st : r.owner = ns[1] /\ r.repo = ns[2] /\ r.branch = ns[3] /\ r.path \in paths }

QueriedPaths(query) == { query[i].path : i \in 1..Len(query) }

\* C1: directory completeness. As long as every updateCache call was given
\* the change set the remote committed, the rows under a directory are
\* either none or exactly the remote listing of the directory as of the last
\* successful fetch or reconciliation that touched it.
C1_DirectoryCompleteness ==
    faithful =>
        \A ns \in Namespaces, d \in Dirs :
            \/ RowsUnder(store, ns, d) = {}
            \/ { EntryOf(r) : r \in RowsUnder(store, ns, d) } = truth[ns][d]

C3_RemovedDeletedRegardless ==
    last.op = "updateCache" =>
        /\ RowsAt(store, last.ns, last.removedCached) = {}
        /\ last.err = "RemoteQueryFailed" => store \subseteq last.before

\* The paths of S below the repository root: those whose directory
\* path.dirname names as getCachedCollection keys it.
BelowRoot(S) == { p \in S : Len(p) > 1 }

\* The first half of C3 for paths below the root, where it holds.
RemovedDeletedBelowRoot ==
    last.op = "updateCache" =>
        RowsAt(store, last.ns, BelowRoot(last.removedCached)) = {}

\* C4: reconciliation locality. An updateCache call none of whose paths lies
\* in a cached directory issued no store statement and no remote query, and
\* left the store as it found it.
C4_ReconciliationLocality ==
    (last.op = "updateCache" /\ last.removedCached = {} /\ last.fetchCached = {}) =>
        /\ last.stmts = << >>
        /\ last.queries = << >>
        /\ last.err = "none"
        /\ store = last.before

C4_Witness ==
    /\ last.op = "updateCache" /\ last.size = MaxChange
    /\ last.removedCached = {} /\ last.fetchCached = {}
    /\ last.before # {}
    /\ store = last.before

\* C5: batching. An updateCache call with k >= 1 modified and added paths in
\* cached directories issued exactly one remote query, for exactly those k
\* paths; with k = 0 it issued none.
C5_OneBatchedQuery ==
    last.op = "updateCache" =>
        IF last.fetchCached # {}
        THEN /\ Len(last.queries) = 1
             /\ Len(last.queries[1]) = Cardinality(last.fetchCached)
             /\ QueriedPaths(last.queries[1]) = last.fetchCached
        ELSE last.queries = << >>

\* C5's batching for paths below the root, where it holds.
OneBatchedQueryBelowRoot ==
    last.op = "updateCache" =>
        IF BelowRoot(last.fetchCached) # {}
        THEN /\ Len(last.queries) = 1
             /\ QueriedPaths(last.queries[1]) = BelowRoot(last.fetchCached)
        ELSE last.queries = << >>

\* C6: populate idempotence. A getCachedCollection call on a directory that
\* had rows issued no remote query and no store statement, left the store as
\* it found it and returned exactly those rows; and after a call that fetched
\* and cached a directory, a second call on it, whatever the remote would
\* reply, issues no query, changes nothing and returns the same rows.
C6_PopulateIdempotent ==
    last.op = "getCachedCollection" =>
        /\ RowsUnder(last.before, last.ns, last.dir) # {} =>
              /\ last.queries = << >>
              /\ last.stmts = << >>
              /\ last.err = "none"
              /\ store = last.before
              /\ last.result = RowsUnder(last.before, last.ns, last.dir)
        /\ (Len(last.queries) = 1 /\ last.err = "none" /\ last.result # {}) =>
              \A reply \in {"ok", "fail"} :
                  LET again == Populated(last.ns, last.dir, reply)
                  IN  /\ again.queries = << >>
                      /\ again.stmts = << >>
                      /\ again.store = store
                      /\ again.err = "none"
                      /\ again.result = last.result

C6_Witness ==
    /\ last.op = "getCachedCollection"
    /\ RowsUnder(last.before, last.ns, last.dir) # {}
    /\ last.result # {}
    /\ last.queries = << >>


\* The change sets that only remove
RemovalsOnly == { cs \in ChangeSets : cs.modified = << >> /\ cs.added = << >> }

\* C15: removal-only reconciliation. An updateCache call with no modified
\* and no added path leaves no row in the namespace for a removed path whose
\* directory is cached, leaves every other row as it is and issues no remote
\* query.
C15_RemovalOnly ==
    \A ns \in Namespaces, cs \in RemovalsOnly, reply \in {"ok", "fail"} :
        LET out == Reconciled(ns, cs, reply)
            gone == RowsAt(store, ns, InCachedDirectory(store, ns, Range(cs.removed)))
        IN  /\ out.queries = << >>
            /\ out.err = "none"
            /\ out.store = store \ gone

\* C15 for the removed paths below the root, where it holds.
RemovalOnlyBelowRoot ==
    \A ns \in Namespaces, cs \in RemovalsOnly, reply \in {"ok", "fail"} :
        LET out == Reconciled(ns, cs, reply)
            gone == RowsAt(store, ns,
                           BelowRoot(InCachedDirectory(store, ns, Range(cs.removed))))
        IN  /\ out.queries = << >>
            /\ out.err = "none"
            /\ out.store = store \ gone

\* C17: after a successful updateCache call, for every path it fetched: a
\* path of modified has its row's content, sha and lastUpdated replaced by
\* the fetched values, the row's other fields as they were and no row added;
\* a path of added has exactly one row, a new one, with parentPath the
\* path's directory, name its base name, type "blob" and the fetched content
\* and sha.
C17_UpdateAndInsertFields ==
    \A ns \in Namespaces, cs \in ChangeSets :
        LET out == Reconciled(ns, cs, "ok")
        IN  (out.err = "none" /\ out.queries # << >>) =>
              \A p \in QueriedPaths(out.queries[1]) :
                  LET was == RowsAt(store, ns, {p})
                      is == RowsAt(out.store, ns, {p})
                      content == Text(remote[ns][p])
                      sha == Oid(remote[ns][p])
                  IN  IF p \in Range(cs.modified)
                      THEN is = { [owner |-> r.owner, repo |-> r.repo, branch |-> r.branch,
                                   path |-> r.path, parentPath |-> r.parentPath,
                                   name |-> r.name, type |-> r.type,
                                   content |-> content, sha |-> sha,
                                   lastUpdated |-> clock + 1] : r \in was }
                      ELSE /\ p \in Range(cs.added)
                           /\ was = {}
                           /\ is = { [owner |-> ns[1], repo |-> ns[2], branch |-> ns[3],
                                      path |-> p, parentPath |-> SubSeq(p, 1, Len(p) - 1),
                                      name |-> p[Len(p)], type |-> "blob",
                                      content |-> content, sha |-> sha,
                                      lastUpdated |-> clock + 1] }

\* An updateCache call fetched a modified and an added path of a cached
\* directory, updated the one row and inserted the other.
C17_Witness ==
    /\ last.op = "updateCache"
    /\ last.err = "none"
    /\ Len(last.queries) = 1
    /\ \E i \in 1..Len(last.stmts) : last.stmts[i].kind = "update"
    /\ \E i \in 1..Len(last.stmts) : last.stmts[i].kind = "insert"
    /\ Cardinality(store) = Cardinality(last.before) + 1

\* C18: primary-key uniqueness. The store holds at most one row per
\* (owner, repo, branch, path), and no getCachedCollection or updateCache
\* call fails on a duplicate key, an updateCache call given an added path
\* that is already cached included.
C18_NoDuplicateKey ==
    /\ \A r, q \in store :
          (r.owner = q.owner /\ r.repo = q.repo /\ r.branch = q.branch /\ r.path = q.path)
              => r = q
    /\ last.err # "StoreError"

\* The directories the remote resolves to no children
EmptyRemotely(ns) == { d \in Dirs : ChildPaths(remote[ns], d) = {} }

\* C19: empty directory. A getCachedCollection call that misses the cache
\* on a directory the remote resolves to zero children issues one remote
\* query, changes nothing in the store and returns the empty sequence; the
\* directory having no rows after it as before, every later call does the
\* same.
C19_EmptyDirectoryRefetched ==
    /\ \A ns \in Namespaces :
          \A d \in EmptyRemotely(ns) :
              RowsUnder(store, ns, d) = {} =>
                  LET out == Populated(ns, d, "ok")
                  IN  /\ Len(out.queries) = 1
                      /\ out.stmts = << >>
                      /\ out.store = store
                      /\ out.err = "none"
                      /\ out.result = {}
                      /\ RowsUnder(out.store, ns, d) = {}
    /\ (/\ last.op = "getCachedCollection"
        /\ last.err = "none"
        /\ Len(last.queries) = 1
        /\ last.result = {}) =>
              /\ store = last.before
              /\ last.stmts = << >>
              /\ RowsUnder(store, last.ns, last.dir) = {}

\* A second call on a directory emptied remotely fetched again.
C19_Witness ==
    /\ last.op = "getCachedCollection"
    /\ last.err = "none"
    /\ Len(last.queries) = 1
    /\ last.result = {}
    /\ last.dir \in EmptyRemotely(last.ns)
    /\ clock = MaxClock
    /\ store = {}

\* C20: parent-key agreement. For every row getCachedCollection has stored
\* under a directory d, the root included, the parent updateCache derives
\* from the row's path is d; so an updateCache call that removes the path
\* finds the directory cached and deletes the row.
C20_ParentKeyAgreement ==
    \A r \in store :
        /\ Dirname(r.path) = r.parentPath
        /\ LET ns == <<r.owner, r.repo, r.branch>>
               out == Reconciled(ns, ChangeSet({r.path}, {}, {}), "ok")
           IN  r.path \in Files => r \notin out.store

\* C20 for the rows stored under a directory below the root, where it holds.
ParentKeyAgreementBelowRoot ==
    \A r \in store :
        r.parentPath # Root =>
            /\ Dirname(r.path) = r.parentPath
            /\ LET ns == <<r.owner, r.repo, r.branch>>
                   out == Reconciled(ns, ChangeSet({r.path}, {}, {}), "ok")
               IN  r.path \in Files => r \notin out.store

-----------------------------------------------------------------------------
(* The credential broker: encryption, the remote app API, the tables *)

\* null, as decrypt returns it
NoToken == 0

\* encrypt(plaintext) -> { ciphertext, iv }, under the initialisation vector iv
Encrypt(token, iv) == [token |-> token, iv |-> iv, sound |-> TRUE]

\* decrypt(ciphertext, iv): the plaintext, or null when the ciphertext is not
\* one that encrypt made under this iv.
Decrypt(ciphertext, iv) ==
    IF ciphertext.sound /\ ciphertext.iv = iv THEN ciphertext.token ELSE NoToken

\* A stored ciphertext that no longer decrypts.
Garbage == [token |-> NoToken, iv |-> 0, sound |-> FALSE]

\* The initialisation vector encrypt draws for the n-th token: a fresh one.
FreshIv(n) == 100 + n

\* The lifetimes, in seconds, the remote gives the tokens it creates.
Lifetimes == {1, 61}

\* The steps by which the clock advances, in milliseconds.
TickSteps == {500, 1000}

\* The safety margin of the expiry check, in seconds.
Margin == 60

\* Math.floor(ms / 1000)
Seconds(ms) == ms \div 1000

\* installationToken.data.expires_at: a date with the precision of a second
ExpiresAtDate(ms, lifetime) == (Seconds(ms) + lifetime) * 1000

Owners == {"o1", "o2"}

Repos == {"r1", "r2"}

\* apps.getRepoInstallation: the id of the installation of the app on the
\* repository; 0 when there is none.
InstallationOf(owner, repo) ==
    IF owner = "o1" THEN 7
    ELSE IF repo = "r1" THEN 8
    ELSE 0

NoUser == [id |-> 0, githubId |-> 0]

\* u1 has no linked external identity; u2, u3 and u4 have one.
Users == { [id |-> 1, githubId |-> 0], [id |-> 2, githubId |-> 55],
           [id |-> 3, githubId |-> 66], [id |-> 4, githubId |-> 77] }

\* The users with a linked external identity
Linked == { u \in Users : u.githubId # 0 }

-----------------------------------------------------------------------------
(* getInstallationToken *)

\* What a broker call did: the token table it left, the next serial id, the
\* number of tokens the remote has created, the steps it performed in order,
\* the error it threw ("none": it returned) and the token it returned.
Done(tbl, nid, n, steps, err, token) ==
    [tokens |-> tbl, nextId |-> nid, minted |-> n, steps |-> steps, err |-> err, token |-> token]

\* findFirst where installationId = inst: the rows it may return
RowsOfInstallation(tbl, inst) == { r \in tbl : r.installationId = inst }

\* The row findFirst returns: the one of least id.
FindFirst(rows) == CHOOSE r \in rows : \A q \in rows : r.id <= q.id

\* A decision that leaves out the 60 second margin.
DecisionWithoutMargin(found, tokenData, ms) ==
    IF found /\ Seconds(ms) < tokenData.expiresAt
    THEN IF Decrypt(tokenData.ciphertext, tokenData.iv) = NoToken THEN "throw" ELSE "return"
    ELSE "mint"

\* A decision that takes a row it cannot decrypt for an expired one.
DecisionRemintingOnFailure(found, tokenData, ms) ==
    IF /\ found
       /\ Seconds(ms) < tokenData.expiresAt - Margin
       /\ Decrypt(tokenData.ciphertext, tokenData.iv) # NoToken
    THEN "return"
    ELSE "mint"

\* The choice of lines 52 to 57: "return" the stored token, "throw" when it
\* does not decrypt, "mint" a new one.
Decision(found, tokenData, ms) ==
    IF found /\ Seconds(ms) < tokenData.expiresAt - Margin
    THEN IF Decrypt(tokenData.ciphertext, tokenData.iv) = NoToken THEN "throw" ELSE "return"
    ELSE "mint"

\* A renewal that overwrites the token and leaves the expiry as it was.
RenewRowKeepingExpiry(tbl, tokenData, ciphertext, iv, expiresAt) ==
    { IF r.id = tokenData.id
      THEN [r EXCEPT !.ciphertext = ciphertext, !.iv = iv]
      ELSE r : r \in tbl }

\* A renewal that adds a row for the installation and keeps the expired one.
RenewRowByInsert(tbl, tokenData, ciphertext, iv, expiresAt) ==
    tbl \cup { [id |-> tokenData.id + 100, installationId |-> tokenData.installationId,
                ciphertext |-> ciphertext, iv |-> iv, expiresAt |-> expiresAt] }

\* db.update(...).set({ciphertext, iv, expiresAt}).where(id = tokenData.id)
RenewRow(tbl, tokenData, ciphertext, iv, expiresAt) ==
    { IF r.id = tokenData.id
      THEN [r EXCEPT !.ciphertext = ciphertext, !.iv = iv, !.expiresAt = expiresAt]
      ELSE r : r \in tbl }

\* db.insert(...).values({ciphertext, iv, installationId, expiresAt})
InsertRow(tbl, nid, inst, ciphertext, iv, expiresAt) ==
    tbl \cup { [id |-> nid, installationId |-> inst, ciphertext |-> ciphertext,
                iv |-> iv, expiresAt |-> expiresAt] }

\* getInstallationToken(owner, repo) at time ms. reply is what the remote
\* answers: "ok", "lookupFail" (getRepoInstallation fails) or "mintFail"
\* (createInstallationAccessToken fails); lifetime is the one the remote
\* gives a token it creates.
GetInstallationToken(tbl, nid, n, owner, repo, ms, lifetime, reply) ==
    LET inst == InstallationOf(owner, repo)
        rows == RowsOfInstallation(tbl, inst)
        found == rows # {}
        tokenData == IF found THEN FindFirst(rows)
                     ELSE [id |-> 0, installationId |-> inst, ciphertext |-> Garbage,
                           iv |-> 0, expiresAt |-> 0]
        decision == Decision(found, tokenData, ms)
        token == n + 1
        iv == FreshIv(token)
        ciphertext == Encrypt(token, iv)
        expiresAt == Seconds(ExpiresAtDate(ms, lifetime))
    IN  IF reply = "lookupFail"
        THEN Done(tbl, nid, n, <<"getRepoInstallation">>, "RemoteQueryFailed", NoToken)
        ELSE IF inst = 0
        THEN Done(tbl, nid, n, <<"getRepoInstallation">>, "InstallationNotFound", NoToken)
        ELSE IF decision = "return"
        THEN Done(tbl, nid, n, <<"getRepoInstallation", "tokenLookup", "decrypt">>, "none",
                  Decrypt(tokenData.ciphertext, tokenData.iv))
        ELSE IF decision = "throw"
        THEN Done(tbl, nid, n, <<"getRepoInstallation", "tokenLookup", "decrypt">>,
                  "DecryptionFailed", NoToken)
        ELSE IF reply = "mintFail"
        THEN Done(tbl, nid, n, <<"getRepoInstallation", "tokenLookup", "mint">>,
                  "RemoteQueryFailed", NoToken)
        ELSE IF found
        THEN Done(RenewRow(tbl, tokenData, ciphertext, iv, expiresAt), nid, n + 1,
                  <<"getRepoInstallation", "tokenLookup", "mint", "encrypt", "update">>,
                  "none", token)
        ELSE Done(InsertRow(tbl, nid, inst, ciphertext, iv, expiresAt), nid + 1, n + 1,
                  <<"getRepoInstallation", "tokenLookup", "mint", "encrypt", "insert">>,
                  "none", token)

-----------------------------------------------------------------------------
(* getUserToken and getToken *)

\* A getUserToken that looks the token row up before it checks the identity.
GetUserTokenLookupFirst(tbl, nid, n, utbl, session) ==
    LET rows == { r \in utbl : r.userId = session.id }
        tokenData == CHOOSE r \in rows : TRUE
    IN  IF session = NoUser
        THEN Done(tbl, nid, n, <<"getAuth">>, "NotAuthenticated", NoToken)
        ELSE IF rows = {}
        THEN Done(tbl, nid, n, <<"getAuth", "userTokenLookup">>, "NotFound", NoToken)
        ELSE IF session.githubId = 0
        THEN Done(tbl, nid, n, <<"getAuth", "userTokenLookup">>, "NotLinked", NoToken)
        ELSE IF Decrypt(tokenData.ciphertext, tokenData.iv) = NoToken
        THEN Done(tbl, nid, n, <<"getAuth", "userTokenLookup", "decrypt">>,
                  "DecryptionFailed", NoToken)
        ELSE Done(tbl, nid, n, <<"getAuth", "userTokenLookup", "decrypt">>, "none",
                  Decrypt(tokenData.ciphertext, tokenData.iv))

\* getUserToken(), the session user being what getAuth() returns
GetUserToken(tbl, nid, n, utbl, session) ==
    LET rows == { r \in utbl : r.userId = session.id }
        tokenData == CHOOSE r \in rows : TRUE
    IN  IF session = NoUser
        THEN Done(tbl, nid, n, <<"getAuth">>, "NotAuthenticated", NoToken)
        ELSE IF session.githubId = 0
        THEN Done(tbl, nid, n, <<"getAuth">>, "NotLinked", NoToken)
        ELSE IF rows = {}
        THEN Done(tbl, nid, n, <<"getAuth", "userTokenLookup">>, "NotFound", NoToken)
        ELSE IF Decrypt(tokenData.ciphertext, tokenData.iv) = NoToken
        THEN Done(tbl, nid, n, <<"getAuth", "userTokenLookup", "decrypt">>,
                  "DecryptionFailed", NoToken)
        ELSE Done(tbl, nid, n, <<"getAuth", "userTokenLookup", "decrypt">>, "none",
                  Decrypt(tokenData.ciphertext, tokenData.iv))

\* A subscription lookup that leaves out the status condition.
AnySubscription(subs, owner) ==
    \E sub \in subs : sub.owner = owner

\* subscriptionTable.findFirst where owner = owner and status = "active"
ActiveSubscription(subs, owner) ==
    \E sub \in subs : sub.owner = owner /\ sub.status = "active"

\* collaboratorTable.findFirst where owner = owner and repo = repo
Permission(collabs, owner, repo) ==
    \E c \in collabs : c.owner = owner /\ c.repo = repo

\* A getToken that makes the organizational checks for every user.
GetTokenChecksFirst(tbl, nid, n, subs, collabs, utbl, user, session, owner, repo, ms, lifetime, reply) ==
    IF ~ActiveSubscription(subs, owner)
    THEN Done(tbl, nid, n, <<"subscriptionLookup">>, "NoActiveSubscription", NoToken)
    ELSE IF ~Permission(collabs, owner, repo)
    THEN Done(tbl, nid, n, <<"subscriptionLookup", "collaboratorLookup">>,
              "NoPermission", NoToken)
    ELSE IF user.githubId # 0
    THEN LET inner == GetUserToken(tbl, nid, n, utbl, session)
         IN  [inner EXCEPT !.steps = <<"subscriptionLookup", "collaboratorLookup">> \o @]
    ELSE LET inner == GetInstallationToken(tbl, nid, n, owner, repo, ms, lifetime, reply)
         IN  [inner EXCEPT !.steps = <<"subscriptionLookup", "collaboratorLookup">> \o @]

\* getToken(user, owner, repo)
GetToken(tbl, nid, n, subs, collabs, utbl, user, session, owner, repo, ms, lifetime, reply) ==
    IF user.githubId # 0 THEN GetUserToken(tbl, nid, n, utbl, session)
    ELSE IF ~ActiveSubscription(subs, owner)
    THEN Done(tbl, nid, n, <<"subscriptionLookup">>, "NoActiveSubscription", NoToken)
    ELSE IF ~Permission(collabs, owner, repo)
    THEN Done(tbl, nid, n, <<"subscriptionLookup", "collaboratorLookup">>,
              "NoPermission", NoToken)
    ELSE LET inner == GetInstallationToken(tbl, nid, n, owner, repo, ms, lifetime, reply)
         IN  [inner EXCEPT !.steps = <<"subscriptionLookup", "collaboratorLookup">> \o @]


-----------------------------------------------------------------------------
(* The credential broker as a state machine *)

\* The record of a broker call: the operation, the token table it found, and
\* what it did.
TokenCall(op, out) ==
    [ op |-> op, before |-> tokens,
      steps |-> out.steps, err |-> out.err, token |-> out.token ]

\* The last step was not a call.
NoCall == [op |-> "none", before |-> {}, steps |-> << >>, err |-> "none", token |-> NoToken]

TokenInit ==
    /\ tokens = {}
    /\ nextId = 1
    /\ nowMs = 0
    /\ minted = 0
    /\ subscriptions = { [owner |-> "o1", status |-> "active"],
                         [owner |-> "o2", status |-> "canceled"] }
    /\ collaborators = { [owner |-> "o1", repo |-> "r1"], [owner |-> "o2", repo |-> "r1"] }
    /\ userTokens = { [userId |-> 2, ciphertext |-> Encrypt(91, 1), iv |-> 1],
                      [userId |-> 3, ciphertext |-> Garbage, iv |-> 2] }
    /\ tlast = NoCall

\* The broker's effect on its state
Brokered(op, out) ==
    /\ out.minted <= MaxMints
    /\ tokens' = out.tokens
    /\ nextId' = out.nextId
    /\ minted' = out.minted
    /\ tlast' = TokenCall(op, out)
    /\ UNCHANGED <<nowMs, subscriptions, collaborators, userTokens>>

\* What getToken and getInstallationToken do when called now.
TokenNow(user, session, owner, repo, lifetime, reply) ==
    GetToken(tokens, nextId, minted, subscriptions, collaborators, userTokens,
             user, session, owner, repo, nowMs, lifetime, reply)

InstallationTokenNow(owner, repo, lifetime, reply) ==
    GetInstallationToken(tokens, nextId, minted, owner, repo, nowMs, lifetime, reply)

\* A call of getToken(user, owner, repo) in a request of the session user
CallGetToken(user, session, owner, repo, lifetime, reply) ==
    Brokered("getToken", TokenNow(user, session, owner, repo, lifetime, reply))

\* A call of getInstallationToken(owner, repo)
CallGetInstallationToken(owner, repo, lifetime, reply) ==
    Brokered("getInstallationToken", InstallationTokenNow(owner, repo, lifetime, reply))

\* A call of getUserToken() in a request of the session user
CallGetUserToken(session) ==
    Brokered("getUserToken",
             GetUserToken(tokens, nextId, minted, userTokens, session))

\* Time passes.
Tick(d) ==
    /\ nowMs + d <= MaxNowMs
    /\ nowMs' = nowMs + d
    /\ tlast' = NoCall
    /\ UNCHANGED <<tokens, nextId, minted, subscriptions, collaborators, userTokens>>

\* A stored ciphertext is damaged, or the key it was made under is gone.
Corrupt(id) ==
    /\ \E r \in tokens : r.id = id /\ r.ciphertext # Garbage
    /\ tokens' = { IF r.id = id THEN [r EXCEPT !.ciphertext = Garbage] ELSE r : r \in tokens }
    /\ tlast' = NoCall
    /\ UNCHANGED <<nextId, nowMs, minted, subscriptions, collaborators, userTokens>>

Replies == {"ok", "lookupFail", "mintFail"}

\* getToken for a user with a linked external identity, in a request of
\* that user or of nobody
LinkedGetToken ==
    \E user \in Linked, owner \in Owners, repo \in Repos :
        \E session \in {user, NoUser} : CallGetToken(user, session, owner, repo, 1, "ok")

\* getToken for a user without one
UnlinkedGetToken ==
    \E user \in Users \ Linked, owner \in Owners, repo \in Repos,
       lifetime \in Lifetimes, reply \in Replies :
        CallGetToken(user, user, owner, repo, lifetime, reply)

TokenNext ==
    \/ LinkedGetToken /\ UNCHANGED notTokenVars
    \/ UnlinkedGetToken /\ UNCHANGED notTokenVars
    \/ /\ \E owner \in Owners, repo \in Repos, lifetime \in Lifetimes, reply \in Replies :
            CallGetInstallationToken(owner, repo, lifetime, reply)
       /\ UNCHANGED notTokenVars
    \/ (\E session \in Users \cup {NoUser} : CallGetUserToken(session)) /\ UNCHANGED notTokenVars
    \/ (\E d \in TickSteps : Tick(d)) /\ UNCHANGED notTokenVars
    \/ (\E id \in 1..MaxMints : Corrupt(id)) /\ UNCHANGED notTokenVars

-----------------------------------------------------------------------------
(* Properties of the credential broker *)

\* The rows the token table holds for an installation, as the claims speak
\* of them.
TokenRows(tbl, inst) == { r \in tbl : r.installationId = inst }

Installed == { pair \in Owners \X Repos : InstallationOf(pair[1], pair[2]) # 0 }

\* C7: token renewal. Whenever the row of an installation is expired, a
\* getInstallationToken call that the remote answers performs exactly one
\* mint and no insert, overwrites ciphertext, iv and expiresAt of that row in
\* place, leaves exactly one row for the installation and every other row as
\* it was, and returns the token just minted.
C7_RenewalInPlace ==
    \A pair \in Installed, lifetime \in Lifetimes :
        LET inst == InstallationOf(pair[1], pair[2])
            rows == TokenRows(tokens, inst)
            out == InstallationTokenNow(pair[1], pair[2], lifetime, "ok")
            after == TokenRows(out.tokens, inst)
        IN  (rows # {} /\ \A r \in rows : Seconds(nowMs) >= r.expiresAt - 60) =>
                /\ out.err = "none"
                /\ Cardinality({ i \in 1..Len(out.steps) : out.steps[i] = "mint" }) = 1
                /\ \A i \in 1..Len(out.steps) : out.steps[i] # "insert"
                /\ out.minted = minted + 1
                /\ out.token = minted + 1
                /\ Cardinality(after) = 1
                /\ \A new \in after :
                      /\ \E old \in rows :
                            /\ new.id = old.id
                            /\ new.ciphertext # old.ciphertext
                            /\ new.iv # old.iv
                      /\ Decrypt(new.ciphertext, new.iv) = out.token
                      /\ new.expiresAt = Seconds(nowMs) + lifetime
                /\ out.tokens \ after = tokens \ rows

C7_Witness ==
    /\ tlast.op = "getInstallationToken" /\ tlast.err = "none"
    /\ tlast.steps = <<"getRepoInstallation", "tokenLookup", "mint", "encrypt", "update">>
    /\ \E r \in tlast.before : r.expiresAt = Seconds(nowMs) - 1
    /\ Cardinality(tokens) = Cardinality(tlast.before)

\* C8: the safety margin. For every stored row and any time now,
\* getInstallationToken returns the stored token without minting exactly
\* when now < expiresAt - 60 (and the row decrypts: C10 has the row that
\* does not); at now >= expiresAt - 60 it mints, whatever the row holds, and
\* renews the row when the remote answers. A token returned from the store
\* has more than 60 seconds left.
C8_SafetyMargin ==
    \A pair \in Installed, lifetime \in Lifetimes, reply \in {"ok", "mintFail"} :
        LET inst == InstallationOf(pair[1], pair[2])
            rows == TokenRows(tokens, inst)
            out == InstallationTokenNow(pair[1], pair[2], lifetime, reply)
        IN  \A row \in rows :
              LET stored == Decrypt(row.ciphertext, row.iv)
                  returnedStored ==
                      /\ out.err = "none"
                      /\ out.token = stored
                      /\ \A i \in 1..Len(out.steps) : out.steps[i] # "mint"
                      /\ out.tokens = tokens
                      /\ out.minted = minted
              IN  /\ returnedStored <=>
                        (Seconds(nowMs) < row.expiresAt - 60 /\ stored # NoToken)
                  /\ returnedStored => row.expiresAt - Seconds(nowMs) > 60
                  /\ Seconds(nowMs) >= row.expiresAt - 60 =>
                        /\ \E i \in 1..Len(out.steps) : out.steps[i] = "mint"
                        /\ reply = "ok" =>
                              /\ out.err = "none"
                              /\ out.token = minted + 1
                              /\ \E new \in TokenRows(out.tokens, inst) :
                                    /\ new.id = row.id
                                    /\ Decrypt(new.ciphertext, new.iv) = out.token
                                    /\ new.expiresAt = Seconds(nowMs) + lifetime

\* A renewal at now = expiresAt - 60 exactly.
C8_Witness ==
    /\ tlast.op = "getInstallationToken" /\ tlast.err = "none"
    /\ tlast.steps = <<"getRepoInstallation", "tokenLookup", "mint", "encrypt", "update">>
    /\ \E r \in tlast.before :
          /\ r.expiresAt - 60 = Seconds(nowMs)
          /\ Decrypt(r.ciphertext, r.iv) # NoToken

\* C9: fail-fast ordering. getToken for a user without a linked external
\* identity fails with NoActiveSubscription after the subscription lookup
\* alone when the owner has no active subscription, and otherwise with
\* NoPermission after the two lookups when there is no collaborator grant;
\* either way no remote call, no decryption and no store mutation was made.
C9_FailFast ==
    \A user \in Users, owner \in Owners, repo \in Repos,
       lifetime \in Lifetimes, reply \in Replies :
        LET out == TokenNow(user, user, owner, repo, lifetime, reply)
            subscribed == \E sub \in subscriptions :
                              sub.owner = owner /\ sub.status = "active"
            granted == \E c \in collaborators : c.owner = owner /\ c.repo = repo
            untouched == /\ out.tokens = tokens
                         /\ out.nextId = nextId
                         /\ out.minted = minted
                         /\ out.token = NoToken
        IN  user.githubId = 0 =>
              /\ ~subscribed =>
                    /\ out.err = "NoActiveSubscription"
                    /\ out.steps = <<"subscriptionLookup">>
                    /\ untouched
              /\ (subscribed /\ ~granted) =>
                    /\ out.err = "NoPermission"
                    /\ out.steps = <<"subscriptionLookup", "collaboratorLookup">>
                    /\ untouched

C9_Witness ==
    /\ tlast.op = "getToken"
    /\ tlast.err = "NoActiveSubscription"
    /\ tlast.steps = <<"subscriptionLookup">>
    /\ tokens # {}
    /\ tokens = tlast.before

\* C10: a failed decryption is never turned into a mint. When the row of an
\* installation is not expired and does not decrypt, getInstallationToken
\* fails with DecryptionFailed, mints nothing and leaves the table as it was.
C10_DecryptionFailedNoRemint ==
    \A pair \in Installed, lifetime \in Lifetimes, reply \in {"ok", "mintFail"} :
        LET inst == InstallationOf(pair[1], pair[2])
            rows == TokenRows(tokens, inst)
            out == InstallationTokenNow(pair[1], pair[2], lifetime, reply)
        IN  (/\ rows # {}
             /\ \A r \in rows : /\ Seconds(nowMs) < r.expiresAt - 60
                                /\ Decrypt(r.ciphertext, r.iv) = NoToken) =>
                /\ out.err = "DecryptionFailed"
                /\ \A i \in 1..Len(out.steps) : out.steps[i] # "mint"
                /\ out.tokens = tokens
                /\ out.minted = minted
                /\ out.token = NoToken

C10_Witness ==
    /\ tlast.op = "getInstallationToken"
    /\ tlast.err = "DecryptionFailed"
    /\ tokens = tlast.before
    /\ \E r \in tokens : /\ Seconds(nowMs) < r.expiresAt - 60
                         /\ Decrypt(r.ciphertext, r.iv) = NoToken

\* The steps of the organizational path of getToken
OrganizationalSteps ==
    {"subscriptionLookup", "collaboratorLookup", "getRepoInstallation", "tokenLookup",
     "mint", "encrypt", "update", "insert"}

\* C13: personal-identity dispatch. getToken for a user with a linked
\* external identity makes no subscription lookup, no collaborator lookup,
\* no installation lookup and no mint, and leaves the token table alone,
\* whatever the subscription and grant state of (owner, repo); in a request
\* of that user it returns the user's stored token.
C13_PersonalIdentityDispatch ==
    \A user \in Users, session \in Users \cup {NoUser}, owner \in Owners, repo \in Repos :
        LET out == TokenNow(user, session, owner, repo, 1, "ok")
        IN  user.githubId # 0 =>
              /\ \A i \in 1..Len(out.steps) : out.steps[i] \notin OrganizationalSteps
              /\ out.tokens = tokens
              /\ out.nextId = nextId
              /\ out.minted = minted
              /\ out.err \notin {"NoActiveSubscription", "NoPermission"}
              /\ session = user =>
                    \A row \in userTokens :
                        (row.userId = user.id /\ Decrypt(row.ciphertext, row.iv) # NoToken)
                            => /\ out.err = "none"
                               /\ out.token = Decrypt(row.ciphertext, row.iv)

\* A linked user's getToken returned the stored user token after tokens had
\* been minted for installations.
C13_Witness ==
    /\ tlast.op = "getToken"
    /\ tlast.err = "none"
    /\ tlast.steps = <<"getAuth", "userTokenLookup", "decrypt">>
    /\ \E row \in userTokens : tlast.token = Decrypt(row.ciphertext, row.iv)
    /\ tokens # {}
    /\ tokens = tlast.before

\* C16: getUserToken reports the first failure that applies, in the order
\* NotAuthenticated (no session user), NotLinked (no linked external
\* identity), NotFound (no row for the user), DecryptionFailed (the row does
\* not decrypt), and otherwise returns the decrypted token; in every case it
\* writes nothing and mints nothing.
C16_UserTokenFailureOrder ==
    \A user \in Users \cup {NoUser} :
        LET out == GetUserToken(tokens, nextId, minted, userTokens, user)
            rows == { r \in userTokens : r.userId = user.id }
            expected ==
                IF user = NoUser THEN "NotAuthenticated"
                ELSE IF user.githubId = 0 THEN "NotLinked"
                ELSE IF rows = {} THEN "NotFound"
                ELSE IF \A r \in rows : Decrypt(r.ciphertext, r.iv) = NoToken
                     THEN "DecryptionFailed"
                ELSE "none"
        IN  /\ out.err = expected
            /\ expected = "none" =>
                  \E r \in rows : out.token = Decrypt(r.ciphertext, r.iv) /\ out.token # NoToken
            /\ expected # "none" => out.token = NoToken
            /\ out.tokens = tokens /\ out.nextId = nextId /\ out.minted = minted
            /\ \A i \in 1..Len(out.steps) :
                  out.steps[i] \notin {"mint", "encrypt", "update", "insert"}
            /\ expected \in {"NotAuthenticated", "NotLinked"} =>
                  \A i \in 1..Len(out.steps) : out.steps[i] # "userTokenLookup"

\* A getUserToken call, made after tokens were minted for installations,
\* failed on a row that does not decrypt and left the tables alone.
C16_Witness ==
    /\ tlast.op = "getUserToken"
    /\ tlast.err = "DecryptionFailed"
    /\ tlast.steps = <<"getAuth", "userTokenLookup", "decrypt">>
    /\ tokens # {}
    /\ tokens = tlast.before

-----------------------------------------------------------------------------
(* Concurrent getInstallationToken calls: one step per await that reads or *)
(* writes shared state                                                     *)

Callers == {1, 2}

\* The tokens the remote creates for the concurrent callers, at most
MaxRaceMints == 3

NoRow == [id |-> 0, installationId |-> 0, ciphertext |-> Garbage, iv |-> 0, expiresAt |-> 0]

\* A caller with no call in flight
Idle == [pc |-> "idle", inst |-> 0, found |-> FALSE, tokenData |-> NoRow,
         token |-> NoToken, expiresAt |-> 0, err |-> "none"]

\* githubInstallationTokenTable.installationId is unique: an insert of a
\* second row for an installation is refused.
InstallationConflict(tbl, inst) == \E r \in tbl : r.installationId = inst

\* What a caller writes: the full contents of the row of its installation.
Written(inst, token, expiresAt) ==
    [installationId |-> inst, ciphertext |-> Encrypt(token, FreshIv(token)),
     iv |-> FreshIv(token), expiresAt |-> expiresAt]

RaceInit ==
    /\ calls = [c \in Callers |-> Idle]
    /\ written = {}

\* Lines 40 to 46: the call begins and getRepoInstallation answers.
RaceStart(c, owner, repo) ==
    /\ calls[c].pc = "idle"
    /\ InstallationOf(owner, repo) # 0
    /\ calls' = [calls EXCEPT ![c] = [Idle EXCEPT !.pc = "find",
                                                  !.inst = InstallationOf(owner, repo)]]
    /\ UNCHANGED <<tokenVars, written>>

\* Lines 48 to 57: findFirst answers and the expiry check is made.
RaceFind(c) ==
    /\ calls[c].pc = "find"
    /\ LET rows == RowsOfInstallation(tokens, calls[c].inst)
           found == rows # {}
           tokenData == IF found THEN FindFirst(rows) ELSE NoRow
           decision == Decision(found, tokenData, nowMs)
       IN  calls' = [calls EXCEPT ![c] =
                [@ EXCEPT !.found = found, !.tokenData = tokenData,
                          !.pc = IF decision = "mint" THEN "mint" ELSE "done",
                          !.token = IF decision = "return"
                                    THEN Decrypt(tokenData.ciphertext, tokenData.iv)
                                    ELSE NoToken,
                          !.err = IF decision = "throw" THEN "DecryptionFailed" ELSE "none"]]
    /\ UNCHANGED <<tokenVars, written>>

\* The lifetimes the remote gives the concurrent callers' tokens: those that
\* outlast the margin, so that a row is first fresh and then expired.
RaceLifetimes == { l \in Lifetimes : l > Margin }

\* Lines 59 to 65: createInstallationAccessToken answers; the token is
\* encrypted and its expiry converted.
RaceMint(c, lifetime) ==
    /\ calls[c].pc = "mint"
    /\ minted < MaxRaceMints
    /\ minted' = minted + 1
    /\ calls' = [calls EXCEPT ![c] =
                    [@ EXCEPT !.pc = "write", !.token = minted + 1,
                              !.expiresAt = Seconds(ExpiresAtDate(nowMs, lifetime))]]
    /\ UNCHANGED <<tokens, nextId, nowMs, subscriptions, collaborators, userTokens, tlast,
                   written>>

\* Lines 67 to 82: the update of the row found, or the insert of a row.
RaceWrite(c) ==
    /\ calls[c].pc = "write"
    /\ LET call == calls[c]
           iv == FreshIv(call.token)
           ciphertext == Encrypt(call.token, iv)
           refused == ~call.found /\ InstallationConflict(tokens, call.inst)
       IN  /\ tokens' = IF call.found
                        THEN RenewRow(tokens, call.tokenData, ciphertext, iv, call.expiresAt)
                        ELSE IF refused THEN tokens
                        ELSE InsertRow(tokens, nextId, call.inst, ciphertext, iv,
                                       call.expiresAt)
           /\ nextId' = IF call.found \/ refused THEN nextId ELSE nextId + 1
           /\ written' = IF refused THEN written
                         ELSE written \cup {Written(call.inst, call.token, call.expiresAt)}
           /\ calls' = [calls EXCEPT ![c] =
                           [@ EXCEPT !.pc = "done",
                                     !.token = IF refused THEN NoToken ELSE @,
                                     !.err = IF refused THEN "StoreError" ELSE "none"]]
    /\ UNCHANGED <<nowMs, minted, subscriptions, collaborators, userTokens, tlast>>

\* Lines 56 and 84: the call returns, or throws, to its caller.
RaceReturn(c) ==
    /\ calls[c].pc = "done"
    /\ calls' = [calls EXCEPT ![c] = Idle]
    /\ UNCHANGED <<tokenVars, written>>

\* Between the steps of the callers the clock advances by whole seconds.
RaceTickSteps == {1000}

\* Time passes.
RaceTick(d) ==
    /\ nowMs + d <= MaxNowMs
    /\ nowMs' = nowMs + d
    /\ UNCHANGED <<tokens, nextId, minted, subscriptions, collaborators, userTokens, tlast,
                   raceVars>>

RaceNext ==
    \/ /\ \E c \in Callers, owner \in Owners, repo \in Repos : RaceStart(c, owner, repo)
       /\ UNCHANGED notRaceVars
    \/ (\E c \in Callers : RaceFind(c)) /\ UNCHANGED notRaceVars
    \/ (\E c \in Callers, lifetime \in RaceLifetimes : RaceMint(c, lifetime)) /\ UNCHANGED notRaceVars
    \/ (\E c \in Callers : RaceWrite(c)) /\ UNCHANGED notRaceVars
    \/ (\E c \in Callers : RaceReturn(c)) /\ UNCHANGED notRaceVars
    \/ (\E d \in RaceTickSteps : RaceTick(d)) /\ UNCHANGED notRaceVars

\* C11: under any interleaving of getInstallationToken calls the table
\* holds at most one row per installationId, and each row holds, whole, what
\* one caller wrote: ciphertext, iv and expiresAt of one renewal.
C11_OneRowPerInstallation ==
    /\ \A r, q \in tokens : r.installationId = q.installationId => r = q
    /\ \A r \in tokens :
          [installationId |-> r.installationId, ciphertext |-> r.ciphertext,
           iv |-> r.iv, expiresAt |-> r.expiresAt] \in written
    /\ \A w \in written : \E r \in tokens : r.installationId = w.installationId

\* Two callers found the same expired row, both minted and both updated it.
C11_Witness ==
    /\ \A c \in Callers : /\ calls[c].pc = "done" /\ calls[c].err = "none"
                           /\ calls[c].found
                           /\ calls[c].token # NoToken
                           /\ calls[c].tokenData = calls[1].tokenData
    /\ calls[1].token # calls[2].token
    /\ tokens # {}
    /\ \A r \in tokens : r.installationId = calls[1].inst

\* Two callers found no row and both minted; one insert was refused.
InsertRace ==
    /\ \A c \in Callers : calls[c].pc = "done" /\ ~calls[c].found
    /\ calls[1].inst = calls[2].inst
    /\ \E c \in Callers : calls[c].err = "StoreError"

-----------------------------------------------------------------------------
(* Concurrent getCachedCollection calls: one step per await *)

\* A caller with no getCachedCollection call in flight
NotListing == [pc |-> "idle", ns |-> <<"o", "r", "main">>, dir |-> Root,
               githubEntries |-> {}, err |-> "none", result |-> {}]

ListInit == listings = [c \in Callers |-> NotListing]

\* Lines 150 to 159: the call begins and findMany answers; on a hit the
\* rows are what the call returns.
ListLookup(c, ns, d) ==
    /\ listings[c].pc = "idle"
    /\ LET entries == CachedChildren(store, ns, d)
       IN  listings' = [listings EXCEPT ![c] =
                [NotListing EXCEPT !.ns = ns, !.dir = d,
                                   !.pc = IF entries # {} THEN "done" ELSE "fetch",
                                   !.result = entries]]
    /\ UNCHANGED <<store, clock>>

\* Lines 161 to 193: the remote answers the tree query, or fails.
ListFetch(c, reply) ==
    /\ listings[c].pc = "fetch"
    /\ LET call == listings[c]
           githubEntries == TreeEntries(remote[call.ns], call.dir)
       IN  listings' = [listings EXCEPT ![c] =
                IF reply = "fail"
                THEN [@ EXCEPT !.pc = "done", !.err = "RemoteQueryFailed"]
                ELSE [@ EXCEPT !.pc = IF githubEntries = {} THEN "done" ELSE "insert",
                               !.githubEntries = githubEntries]]
    /\ UNCHANGED <<store, clock>>

\* Lines 194 to 207: the insert of the listed rows, refused as a whole when
\* one of them has the key of a row in the table.
ListInsert(c) ==
    /\ listings[c].pc = "insert"
    /\ clock < MaxClock
    /\ LET call == listings[c]
           rows == { ListedRow(call.ns, call.dir, e, clock + 1) : e \in call.githubEntries }
           refused == \E row \in rows : KeyConflict(store, row)
       IN  /\ store' = IF refused THEN store ELSE store \cup rows
           /\ listings' = [listings EXCEPT ![c] =
                  [@ EXCEPT !.pc = "done",
                            !.err = IF refused THEN "StoreError" ELSE "none",
                            !.result = IF refused THEN {} ELSE rows]]
    /\ clock' = clock + 1

\* Line 211: the call returns, or has thrown, to its caller.
ListReturn(c) ==
    /\ listings[c].pc = "done"
    /\ listings' = [listings EXCEPT ![c] = NotListing]
    /\ UNCHANGED <<store, clock>>

ListNext ==
    \/ /\ \E c \in Callers, ns \in Namespaces, d \in Dirs : ListLookup(c, ns, d)
       /\ UNCHANGED notListVars
    \/ (\E c \in Callers, reply \in {"ok", "fail"} : ListFetch(c, reply)) /\ UNCHANGED notListVars
    \/ (\E c \in Callers : ListInsert(c)) /\ UNCHANGED notListVars
    \/ (\E c \in Callers : ListReturn(c)) /\ UNCHANGED notListVars

\* C12: concurrent getCachedCollection calls on one directory that both
\* missed, fetched and inserted are a benign race: neither call fails on the
\* duplicate insert, no path has two rows and the directory's cached listing
\* is complete.
C12_BenignPopulateRace ==
    /\ \A c \in Callers : listings[c].err # "StoreError"
    /\ \A r, q \in store :
          (r.owner = q.owner /\ r.repo = q.repo /\ r.branch = q.branch /\ r.path = q.path)
              => r = q
    /\ \A ns \in Namespaces, d \in Dirs :
          \/ RowsUnder(store, ns, d) = {}
          \/ { EntryOf(r) : r \in RowsUnder(store, ns, d) }
                 = { EntryOf(ListedRow(ns, d, e, 0)) : e \in TreeEntries(remote[ns], d) }

\* What of C12 holds: with the key enforced by the store, no path has two
\* rows and a cached listing is complete; the second caller fails.
PopulateRaceKeepsListing ==
    /\ \A r, q \in store :
          (r.owner = q.owner /\ r.repo = q.repo /\ r.branch = q.branch /\ r.path = q.path)
              => r = q
    /\ \A ns \in Namespaces, d \in Dirs :
          \/ RowsUnder(store, ns, d) = {}
          \/ { EntryOf(r) : r \in RowsUnder(store, ns, d) }
                 = { EntryOf(ListedRow(ns, d, e, 0)) : e \in TreeEntries(remote[ns], d) }

-----------------------------------------------------------------------------
(* The three functions as exported: each wrapped in React's cache, which   *)
(* within one server request runs the function body once per argument      *)
(* tuple and hands every later call with those arguments the first result  *)
(* (value or error), and starts every request with nothing remembered      *)

\* The calls one request makes, at most
MaxServed == 3

Pairs == Owners \X Repos

\* The users whose requests are followed: one without and one with a linked
\* external identity
RequestUsers == { u \in Users : u.id <= 2 }

\* The argument tuple of a call; getUserToken has none, getInstallationToken
\* has no user.
Key(fn, user, owner, repo) == [fn |-> fn, user |-> user, owner |-> owner, repo |-> repo]

Keys ==
    { Key("getToken", u, pair[1], pair[2]) : u \in RequestUsers, pair \in Pairs }
        \cup { Key("getInstallationToken", NoUser, pair[1], pair[2]) : pair \in Pairs }
        \cup { Key("getUserToken", NoUser, "", "") }

\* What cache holds for a key: none, or the one result of the first call.
Remembered(mem, key) == { m \in mem : m.key = key }

\* cache's hit: the first call's result again, the body not run.
Recalled(tbl, nid, n, mem, m) ==
    [tokens |-> tbl, nextId |-> nid, minted |-> n, steps |-> << >>, err |-> m.err,
     token |-> m.token, memo |-> mem, ran |-> << >>]

\* cache's miss: the body has run with outcome out, which is remembered;
\* inner is the memo the body left and ran the bodies run inside it.
Remember(key, out, inner, ran) ==
    [tokens |-> out.tokens, nextId |-> out.nextId, minted |-> out.minted,
     steps |-> out.steps, err |-> out.err, token |-> out.token,
     memo |-> inner \cup {[key |-> key, err |-> out.err, token |-> out.token]},
     ran |-> <<key>> \o ran]

\* getInstallationToken = cache(async (owner, repo) => ...)
CachedGetInstallationToken(mem, tbl, nid, n, owner, repo, ms, lifetime, reply) ==
    LET key == Key("getInstallationToken", NoUser, owner, repo)
        hits == Remembered(mem, key)
    IN  IF hits # {}
        THEN Recalled(tbl, nid, n, mem, CHOOSE m \in hits : TRUE)
        ELSE Remember(key, GetInstallationToken(tbl, nid, n, owner, repo, ms, lifetime, reply),
                      mem, << >>)

\* getUserToken = cache(async () => ...)
CachedGetUserToken(mem, tbl, nid, n, utbl, user) ==
    LET key == Key("getUserToken", NoUser, "", "")
        hits == Remembered(mem, key)
    IN  IF hits # {}
        THEN Recalled(tbl, nid, n, mem, CHOOSE m \in hits : TRUE)
        ELSE Remember(key, GetUserToken(tbl, nid, n, utbl, user), mem, << >>)

\* A step of a function body that calls no cached function
Plain(out, mem) ==
    [tokens |-> out.tokens, nextId |-> out.nextId, minted |-> out.minted,
     steps |-> out.steps, err |-> out.err, token |-> out.token, memo |-> mem, ran |-> << >>]

\* A body of getToken that calls the function getInstallationToken wraps,
\* not the wrapped one.
GetTokenBodyUncachedInner(mem, tbl, nid, n, subs, collabs, utbl, user, sess, owner, repo, ms, lifetime, reply) ==
    Plain(GetToken(tbl, nid, n, subs, collabs, utbl, user, sess, owner, repo, ms, lifetime,
                   reply), mem)

\* The body of getToken, its calls of getUserToken and getInstallationToken
\* being calls of the cached functions.
GetTokenBody(mem, tbl, nid, n, subs, collabs, utbl, user, sess, owner, repo, ms, lifetime, reply) ==
    IF user.githubId # 0 THEN CachedGetUserToken(mem, tbl, nid, n, utbl, sess)
    ELSE IF ~ActiveSubscription(subs, owner)
    THEN Plain(Done(tbl, nid, n, <<"subscriptionLookup">>, "NoActiveSubscription", NoToken),
               mem)
    ELSE IF ~Permission(collabs, owner, repo)
    THEN Plain(Done(tbl, nid, n, <<"subscriptionLookup", "collaboratorLookup">>,
                    "NoPermission", NoToken), mem)
    ELSE LET inner == CachedGetInstallationToken(mem, tbl, nid, n, owner, repo, ms, lifetime,
                                                 reply)
         IN  [inner EXCEPT !.steps = <<"subscriptionLookup", "collaboratorLookup">> \o @]

\* getToken = cache(async (user, owner, repo) => ...)
CachedGetToken(mem, tbl, nid, n, subs, collabs, utbl, user, sess, owner, repo, ms, lifetime, reply) ==
    LET key == Key("getToken", user, owner, repo)
        hits == Remembered(mem, key)
        body == GetTokenBody(mem, tbl, nid, n, subs, collabs, utbl, user, sess, owner, repo,
                             ms, lifetime, reply)
    IN  IF hits # {}
        THEN Recalled(tbl, nid, n, mem, CHOOSE m \in hits : TRUE)
        ELSE Remember(key, body, body.memo, body.ran)

Count(steps, names) == Cardinality({ i \in 1..Len(steps) : steps[i] \in names })

NoWork == [lookups |-> 0, mints |-> 0, writes |-> 0]

RequestInit ==
    /\ memo = {}
    /\ requestUser = CHOOSE u \in RequestUsers : u.githubId = 0
    /\ served = 0
    /\ computed = [k \in Keys |-> 0]
    /\ work = [pair \in Pairs |-> NoWork]

\* A call of one of the three functions in the request in progress
Serve(out, pair) ==
    /\ served < MaxServed
    /\ out.minted <= MaxMints
    /\ served' = served + 1
    /\ tokens' = out.tokens
    /\ nextId' = out.nextId
    /\ minted' = out.minted
    /\ memo' = out.memo
    /\ computed' = [k \in Keys |-> computed[k] + Count(out.ran, {k})]
    /\ work' = [work EXCEPT ![pair] =
                  [lookups |-> @.lookups + Count(out.steps, {"getRepoInstallation"}),
                   mints |-> @.mints + Count(out.steps, {"mint"}),
                   writes |-> @.writes + Count(out.steps, {"update", "insert"})]]
    /\ UNCHANGED <<nowMs, subscriptions, collaborators, userTokens, tlast, requestUser>>

ServeGetToken(owner, repo, lifetime) ==
    Serve(CachedGetToken(memo, tokens, nextId, minted, subscriptions, collaborators,
                         userTokens, requestUser, requestUser, owner, repo, nowMs, lifetime, "ok"),
          <<owner, repo>>)

ServeGetInstallationToken(owner, repo, lifetime) ==
    Serve(CachedGetInstallationToken(memo, tokens, nextId, minted, owner, repo, nowMs,
                                     lifetime, "ok"),
          <<owner, repo>>)

ServeGetUserToken ==
    Serve(CachedGetUserToken(memo, tokens, nextId, minted, userTokens, requestUser),
          <<"o1", "r1">>)

\* The request ends and, d milliseconds later, the next one begins: cache
\* starts it with nothing remembered.
NewRequest(user, d) ==
    /\ served > 0
    /\ nowMs + d <= MaxNowMs
    /\ nowMs' = nowMs + d
    /\ requestUser' = user
    /\ memo' = {}
    /\ served' = 0
    /\ computed' = [k \in Keys |-> 0]
    /\ work' = [pair \in Pairs |-> NoWork]
    /\ UNCHANGED <<tokens, nextId, minted, subscriptions, collaborators, userTokens, tlast>>

RequestNext ==
    \/ /\ \E pair \in Pairs, lifetime \in Lifetimes : ServeGetToken(pair[1], pair[2], lifetime)
       /\ UNCHANGED notRequestVars
    \/ /\ \E pair \in Pairs, lifetime \in Lifetimes :
            ServeGetInstallationToken(pair[1], pair[2], lifetime)
       /\ UNCHANGED notRequestVars
    \/ ServeGetUserToken /\ UNCHANGED notRequestVars
    \/ /\ \E user \in RequestUsers, d \in TickSteps : NewRequest(user, d)
       /\ UNCHANGED notRequestVars

-----------------------------------------------------------------------------
(* The specifications *)

Init == CacheInit /\ TokenInit /\ RaceInit /\ ListInit /\ RequestInit

\* The tree cache
SpecCache == Init /\ [][CacheNext]_vars

\* The credential broker
SpecToken == Init /\ [][TokenNext]_vars

\* Concurrent callers of getInstallationToken
SpecRace == Init /\ [][RaceNext]_vars

\* Concurrent callers of getCachedCollection
SpecListRace == Init /\ [][ListNext]_vars

\* The requests served through the cached functions
SpecRequest == Init /\ [][RequestNext]_vars

=============================================================================
